---- MODULE Spec2Model ----
(***************************************************************************)
(* nanoDB: the batch uploader bin/nanoUpload.py and the two remote stores  *)
(* of lib/python/nanoDBTools.py (CornellFTP, UBCSFTP).                     *)
(*                                                                         *)
(* A Python string is a sequence of one-character strings.  A remote file  *)
(* system is a set of directories and a map from file paths to byte sizes, *)
(* both keyed by canonical paths (sequences of path segments).             *)
(***************************************************************************)
EXTENDS Integers, Sequences, FiniteSets, TLC

(***************************************************************************)
(* Bounds of the model.                                                    *)
(***************************************************************************)
\* longest command line (number of input files)
MaxInputs == 2
\* how many anomalies (injected transport faults, short transfers) a run has
MaxFaults == 1
\* longest manifest (number of lines) the parser is applied to
MaxLines == 4
\* longest command line of the older nanoUpload.py
MaxOldInputs == 3

(***************************************************************************)
(* Strings.                                                                *)
(***************************************************************************)
Slash == "/"
Colon == ":"

\* str.startswith / str.endswith for a one-character argument
StartsWith(s, c) == Len(s) > 0 /\ s[1] = c
EndsWith(s, c) == Len(s) > 0 /\ s[Len(s)] = c

RECURSIVE SplitFrom(_, _, _, _)
\* the segments of s from position k on, cur being the segment under way
SplitFrom(s, c, k, cur) ==
    IF k > Len(s) THEN <<cur>>
    ELSE IF s[k] = c THEN <<cur>> \o SplitFrom(s, c, k + 1, <<>>)
    ELSE SplitFrom(s, c, k + 1, Append(cur, s[k]))

\* str.split(c): "a/b" gives <<"a","b">>, "/a" gives <<"","a">>, "" gives <<"">>
Split(s, c) == SplitFrom(s, c, 1, <<>>)

\* os.path.join(a, b): an absolute b replaces a
PathJoin(a, b) ==
    IF StartsWith(b, Slash) THEN b
    ELSE IF a = <<>> \/ EndsWith(a, Slash) THEN a \o b
    ELSE a \o <<Slash>> \o b

RECURSIVE PathJoinAll(_)
\* os.path.join(p1, p2, ..., pn)
PathJoinAll(ps) ==
    IF Len(ps) = 1 THEN ps[1]
    ELSE PathJoin(PathJoinAll(SubSeq(ps, 1, Len(ps) - 1)), ps[Len(ps)])

\* os.path.split(p)[1]: what follows the last slash
BaseName(p) == LET segs == Split(p, Slash) IN segs[Len(segs)]

RECURSIVE NonEmptySegs(_)
NonEmptySegs(segs) ==
    IF segs = <<>> THEN <<>>
    ELSE IF segs[1] = <<>> THEN NonEmptySegs(Tail(segs))
    ELSE <<segs[1]>> \o NonEmptySegs(Tail(segs))

(***************************************************************************)
(* The remote file system of a store, as its server resolves path names.   *)
(***************************************************************************)
Root == <<>>

\* the canonical path a server resolves the path name p to, from directory wd
ResolvePath(wd, p) ==
    (IF StartsWith(p, Slash) THEN Root ELSE wd) \o NonEmptySegs(Split(p, Slash))

Parent(q) == SubSeq(q, 1, Len(q) - 1)

\* the names of the entries of directory dir (files and directories)
Listing(fs, dir) ==
    { q[Len(q)] : q \in { r \in fs.dirs \cup DOMAIN fs.files :
                            Len(r) > 0 /\ Parent(r) = dir } }

\* the file system after size bytes were stored as the file dest
StoreFile(fs, dest, size) ==
    [fs EXCEPT !.files = [q \in DOMAIN fs.files \cup {dest} |->
                             IF q = dest THEN size ELSE fs.files[q]]]

\* a file can be written at dest: its directory exists, it is no directory
Writable(fs, dest) ==
    /\ Len(dest) > 0
    /\ Parent(dest) \in fs.dirs
    /\ dest \notin fs.dirs


(***************************************************************************)
(* String constants of the program and of the files on the local disk.     *)
(***************************************************************************)
NANOGrav == <<"N", "A", "N", "O", "G", "r", "a", "v">>
rawdata == <<"r", "a", "w", "d", "a", "t", "a">>
processed == <<"p", "r", "o", "c", "e", "s", "s", "e", "d">>
dstore == <<"d", "s", "t", "o", "r", "e">>
data == <<"d", "a", "t", "a">>
cornell_loadingfiles == <<"N", "A", "N", "O", "G", "r", "a", "v", "/", "l", "o", "a", "d", "i", "n", "g", "f", "i", "l", "e", "s">>
ubc_loadingfiles == <<"/", "d", "s", "t", "o", "r", "e", "/", "d", "a", "t", "a", "/", "l", "o", "a", "d", "i", "n", "g", "f", "i", "l", "e", "s">>
ProfileName == <<"P", "r", "o", "f", "i", "l", "e", "N", "a", "m", "e">>
TOA == <<"T", "O", "A">>
type == <<"t", "y", "p", "e">>
archive == <<"a", "r", "c", "h", "i", "v", "e">>
GUPPI2 == <<"G", "U", "P", "P", "I", "2">>
GUPPI == <<"G", "U", "P", "P", "I">>
PUPPI == <<"P", "U", "P", "P", "I">>
xASP == <<"x", "A", "S", "P">>
ASP == <<"A", "S", "P">>
WAPP == <<"W", "A", "P", "P">>
\* Python's None, which is no string
None == <<"None">>

a_fits == <<"a", ".", "f", "i", "t", "s">>
b_fits == <<"d", "/", "b", ".", "f", "i", "t", "s">>
c_fits == <<"/", "d", "s", "t", "o", "r", "e", "/", "d", "a", "t", "a", "/", "c", ".", "f", "i", "t", "s">>
w_fits == <<"w", ".", "f", "i", "t", "s">>
gone_fits == <<"g", "o", "n", "e", ".", "f", "i", "t", "s">>
m_txt == <<"m", ".", "t", "x", "t">>
u_txt == <<"u", ".", "t", "x", "t">>
J1 == <<"J", "1">>
B2 == <<"B", "2">>
date2013 == <<"2", "0", "1", "3", "-", "0", "1", "-", "3", "1">>
date2012 == <<"2", "0", "1", "2", "-", "1", "2", "-", "3", "1">>
line_a == <<"P", "r", "o", "f", "i", "l", "e", "N", "a", "m", "e", ":", " ", "a", ".", "f", "i", "t", "s", "\n">>
line_nsub == <<"n", "s", "u", "b", ":", " ", "1", "\n">>
line_t == <<"P", "r", "o", "f", "i", "l", "e", "N", "a", "m", "e", ":", " ", "t", "\n">>
line_toa == <<"T", "O", "A", ":", " ", "5", "\n">>
line_note == <<"n", "o", "t", "e", "s", "\n">>
line_g == <<"P", "r", "o", "f", "i", "l", "e", "N", "a", "m", "e", ":", " ", "g", ".", "f", "i", "t", "s", "\n">>
line_w == <<"P", "r", "o", "f", "i", "l", "e", "N", "a", "m", "e", ":", " ", "w", ".", "f", "i", "t", "s", "\n">>
line_x == <<"P", "r", "o", "f", "i", "l", "e", "N", "a", "m", "e", ":", " ", "x", ".", "f", "i", "t", "s", "\n">>
line_time == <<"t", "i", "m", "e", ":", " ", "1", "2", ":", "3", "0", "\n">>
line_colon == <<"P", "r", "o", "f", "i", "l", "e", "N", "a", "m", "e", ":", " ", "c", ":", "a", ".", "f", "i", "t", "s", "\n">>
g_fits == <<"g", ".", "f", "i", "t", "s">>
x_fits == <<"x", ".", "f", "i", "t", "s">>
BJ3B == <<"B", "J", "3", "B">>
p_rf == <<"p", ".", "r", "f">>

\* the header of a FITS file
Header(src, backend, date) ==
    ("SRC_NAME" :> src) @@ ("BACKEND" :> backend) @@ ("DATE-OBS" :> date)

\* the header of a FITS file of the ASP backend: day number, second of day
AspHeader(src, imjd, smjd) ==
    ("SRC_NAME" :> src) @@ ("BACKEND" :> xASP) @@ ("STT_IMJD" :> imjd)
        @@ ("STT_SMJD" :> smjd)

FitsFile(hdr) == [kind |-> "fits", hdr |-> hdr, lines |-> <<>>, size |-> 2]
TextFile(lines) == [kind |-> "text", hdr |-> <<>>, lines |-> lines, size |-> 2]

\* the files of the local disk; a name outside the domain cannot be opened
LocalFS ==
    (a_fits :> FitsFile(Header(J1, GUPPI2, date2013)))
 @@ (b_fits :> FitsFile(Header(B2, PUPPI, date2012)))
 @@ (c_fits :> FitsFile(Header(J1, GUPPI2, date2013)))
 @@ (w_fits :> FitsFile(Header(J1, WAPP, date2013)))
 @@ (g_fits :> FitsFile(Header(J1, GUPPI, date2013)))
 @@ (x_fits :> FitsFile(AspHeader(BJ3B, 56292, 86399)))
 @@ (p_rf :> FitsFile(Header(B2, PUPPI, date2012)))
 @@ (m_txt :> TextFile(<<line_a, line_nsub, line_t, line_toa>>))
 @@ (u_txt :> TextFile(<<line_note>>))

opt_h == <<"-", "h">>
opt_help == <<"-", "-", "h", "e", "l", "p">>
opt_x == <<"-", "x">>

\* what a command line may hold: files of the disk, a missing one, options
InputNames ==
    {a_fits, b_fits, c_fits, w_fits, m_txt, u_txt, gone_fits, opt_h, opt_help, opt_x}

(***************************************************************************)
(* More of Python's string operations.                                     *)
(***************************************************************************)
Whitespace == {" ", "\t", "\n", "\r"}

RECURSIVE LStrip(_, _)
LStrip(s, chars) ==
    IF s /= <<>> /\ s[1] \in chars THEN LStrip(Tail(s), chars) ELSE s

RECURSIVE RStrip(_, _)
RStrip(s, chars) ==
    IF s /= <<>> /\ s[Len(s)] \in chars
    THEN RStrip(SubSeq(s, 1, Len(s) - 1), chars) ELSE s

\* str.strip(chars): drops the characters of chars from both ends
Strip(s, chars) == RStrip(LStrip(s, chars), chars)

\* sub in s
Contains(s, sub) ==
    \E i \in 1..(Len(s) - Len(sub) + 1) : SubSeq(s, i, i + Len(sub) - 1) = sub

UpperCase == <<"A", "B", "C", "D", "E", "F", "G", "H", "I", "J", "K", "L", "M",
               "N", "O", "P", "Q", "R", "S", "T", "U", "V", "W", "X", "Y", "Z">>
LowerCase == <<"a", "b", "c", "d", "e", "f", "g", "h", "i", "j", "k", "l", "m",
               "n", "o", "p", "q", "r", "s", "t", "u", "v", "w", "x", "y", "z">>

\* str.lower()
Lower(s) ==
    [i \in 1..Len(s) |->
        IF \E j \in 1..Len(UpperCase) : UpperCase[j] = s[i]
        THEN LowerCase[CHOOSE j \in 1..Len(UpperCase) : UpperCase[j] = s[i]]
        ELSE s[i]]

Digits == <<"0", "1", "2", "3", "4", "5", "6", "7", "8", "9">>

RECURSIVE IntToStr(_)
\* str(n) for n >= 0
IntToStr(n) ==
    IF n < 10 THEN <<Digits[n + 1]>>
    ELSE IntToStr(n \div 10) \o <<Digits[(n % 10) + 1]>>

(***************************************************************************)
(* bin/nanoUpload.py: typing and resolving the input files.                *)
(***************************************************************************)
SECPERDAY == 86400

\* the type determine_filetype gives a file pyfits cannot open, lines being
\* what readlines() gave
TextType(lines) ==
    IF \E j \in 1..Len(lines) : Contains(lines[j], ProfileName)
    THEN "META"
    ELSE "UNKNOWN"

\* determine_filetype(filenm); "RAISE" when an exception leaves the function
determine_filetype(filenm) ==
    IF filenm \notin DOMAIN LocalFS THEN "RAISE"
    ELSE IF LocalFS[filenm].kind = "fits" THEN "FITS"
    ELSE TextType(LocalFS[filenm].lines)

\* the calendar year of a Modified Julian Day (slalib's sla_djcl)
sla_djcl_year(mjd) ==
    LET jd == mjd + 2400001
        n4 == 4 * (jd + ((6 * ((4 * jd - 17918) \div 146097)) \div 4 + 1) \div 2 - 37)
    IN  n4 \div 1461 - 4712

Raised == [raised |-> TRUE, source |-> None, backend |-> None, year |-> None]

\* mutant: the day of an epoch is the nearest day, not the day it falls in
YearOfEpoch_nearest(imjd, smjd) ==
    IntToStr(sla_djcl_year(imjd + (2 * smjd + SECPERDAY) \div (2 * SECPERDAY)))

\* MJD = STT_IMJD + STT_SMJD/SECPERDAY; year = str(sla_djcl(MJD)[0]): the
\* year of the day the epoch falls in, sla_djcl dropping the fraction of day
YearOfEpoch(imjd, smjd) ==
    IntToStr(sla_djcl_year(imjd + smjd \div SECPERDAY))

\* lines 126-146 of parse_archive: source, canonical backend and year from
\* the header
parse_archive_hdr(hdr) ==
    LET has(k) == k \in DOMAIN hdr
    IN  IF ~has("SRC_NAME") \/ ~has("BACKEND") THEN Raised
        ELSE IF hdr["BACKEND"] \in {GUPPI2, PUPPI}
        THEN IF ~has("DATE-OBS") THEN Raised
             ELSE [raised |-> FALSE, source |-> hdr["SRC_NAME"],
                   backend |-> IF hdr["BACKEND"] = GUPPI2 THEN GUPPI ELSE PUPPI,
                   year |-> Split(hdr["DATE-OBS"], "-")[1]]
        ELSE IF hdr["BACKEND"] = xASP
        THEN IF ~has("STT_IMJD") \/ ~has("STT_SMJD") THEN Raised
             ELSE [raised |-> FALSE, source |-> hdr["SRC_NAME"],
                   backend |-> ASP,
                   year |-> YearOfEpoch(hdr["STT_IMJD"], hdr["STT_SMJD"])]
        ELSE [raised |-> FALSE, source |-> hdr["SRC_NAME"],
              backend |-> None, year |-> None]

\* parse_archive(filenm): source, canonical backend and year of a FITS file
parse_archive(filenm) ==
    IF filenm \notin DOMAIN LocalFS THEN Raised
    ELSE IF LocalFS[filenm].kind /= "fits" THEN Raised
    ELSE parse_archive_hdr(LocalFS[filenm].hdr)

\* dict assignment entry[key] = value
DictSet(entry, key, value) ==
    [k \in DOMAIN entry \cup {key} |-> IF k = key THEN value ELSE entry[k]]

EmptyDict == [k \in {} |-> <<>>]

RECURSIVE ScanLines(_, _, _, _)
\* the loop of parse_metafile over the lines k.. with the entries closed so
\* far and the entry under way; the entry under way at the end is not returned
ScanLines(lines, k, entries, entry) ==
    IF k > Len(lines) THEN entries
    ELSE LET parts == Split(lines[k], Colon)
         IN  IF Len(parts) /= 2 THEN ScanLines(lines, k + 1, entries, entry)
             ELSE LET key == Strip(parts[1], Whitespace)
                      value == Strip(parts[2], Whitespace)
                      marker == key = ProfileName
                      closed == IF marker /\ DOMAIN entry /= {}
                                THEN Append(entries, entry) ELSE entries
                      base == IF marker THEN EmptyDict ELSE entry
                  IN  ScanLines(lines, k + 1, closed, DictSet(base, key, value))

\* what parse_metafile returns for a file of these lines
MetafileEntries(lines) ==
    LET closed == ScanLines(lines, 1, <<>>, EmptyDict)
    IN  [j \in 1..Len(closed) |->
            DictSet(closed[j], type,
                    IF TOA \in DOMAIN closed[j] THEN TOA ELSE archive)]

\* parse_metafile(infilenm)
parse_metafile(infilenm) == MetafileEntries(LocalFS[infilenm].lines)

\* the Cornell and UBC directories of a recognized file
cpath(r, category) == PathJoinAll(<<NANOGrav, r.source, r.backend, r.year, category>>)
\* mutant: the catalog letters are dropped from the front of the name only
ubcpath_lstrip(r) ==
    PathJoinAll(<<<<Slash>>, dstore, data,
                  LStrip(LStrip(r.source, {"B"}), {"J"}), Lower(r.backend)>>)

ubcpath(r) ==
    PathJoinAll(<<<<Slash>>, dstore, data,
                  Strip(Strip(r.source, {"B"}), {"J"}), Lower(r.backend)>>)

RECURSIVE MetaEntries(_, _, _)
\* the loop of the orchestrator over the entries of a manifest from entry k
\* on: the work items appended, or a raise
MetaEntries(entries, k, acc) ==
    IF k > Len(entries) THEN [raised |-> FALSE, items |-> acc]
    ELSE IF entries[k][type] /= archive THEN MetaEntries(entries, k + 1, acc)
    ELSE IF ProfileName \notin DOMAIN entries[k] THEN [raised |-> TRUE, items |-> acc]
    ELSE LET r == parse_archive(entries[k][ProfileName])
         IN  IF r.raised THEN [raised |-> TRUE, items |-> acc]
             ELSE IF r.backend /= None
             THEN MetaEntries(entries, k + 1,
                      Append(acc, <<entries[k][ProfileName], cpath(r, processed), ubcpath(r)>>))
             ELSE MetaEntries(entries, k + 1, acc)

\* mutant: an unrecognized backend ends the run, as get_remote_paths of the
\* older nanoUpload.py does
ResolveFits_exit(infilenm) ==
    LET r == parse_archive(infilenm)
    IN  IF r.raised \/ r.backend = None THEN [raised |-> TRUE, items |-> <<>>]
        ELSE [raised |-> FALSE,
              items |-> <<<<infilenm, cpath(r, rawdata), ubcpath(r)>>>>]

\* the branch of the loop for a FITS file given on the command line
ResolveFits(infilenm) ==
    LET r == parse_archive(infilenm)
    IN  IF r.raised THEN [raised |-> TRUE, items |-> <<>>]
        ELSE IF r.backend /= None
        THEN [raised |-> FALSE,
              items |-> <<<<infilenm, cpath(r, rawdata), ubcpath(r)>>>>]
        ELSE [raised |-> FALSE, items |-> <<>>]

\* the branch of the loop for a manifest with these entries: the items of
\* its entries, then the manifest itself
ResolveMeta(infilenm, parsed) ==
    LET m == MetaEntries(parsed, 1, <<>>)
    IN  IF m.raised THEN m
        ELSE [raised |-> FALSE,
              items |-> Append(m.items,
                  <<infilenm, cornell_loadingfiles, ubc_loadingfiles>>)]

\* one turn of the loop over the input files: the work items it appends
ResolveInput(infilenm) ==
    LET filetype == determine_filetype(infilenm)
    IN  IF filetype = "RAISE" THEN [raised |-> TRUE, items |-> <<>>]
        ELSE IF filetype = "META" THEN ResolveMeta(infilenm, parse_metafile(infilenm))
        ELSE IF filetype = "FITS" THEN ResolveFits(infilenm)
        ELSE [raised |-> FALSE, items |-> <<>>]

(***************************************************************************)
(* lib/python/nanoDBTools.py: the two stores.                              *)
(*                                                                         *)
(* A session is [cwd, dirs, files].  An upload call takes two inputs from  *)
(* its environment: f, the number of the remote command of the call at     *)
(* which the transport fails (0: none fails), and stored, the number of    *)
(* bytes the server keeps of the transfer.                                 *)
(***************************************************************************)
\* the test "filenm not in <listing>" of both upload methods, negated
ExistsCheck(filenm, listing) == filenm \in listing

\* mutant: mkd is sent for every segment, listed or not
MkdNeeded_always(directory, dirlist) == TRUE

\* the test "directory not in dirlist" of CornellFTP.upload
MkdNeeded(directory, dirlist) == directory \notin dirlist

\* mutant: the sizes are not compared
Verify_unchecked(remote_size, local_size) == "success"

\* the comparison of the remote size with the local size
Verify(remote_size, local_size) ==
    IF remote_size = local_size THEN "success" ELSE "mismatch"

\* What an upload call reports when an exception leaves it after n remote
\* commands.  dirDone: the directories were gone through to the end;
\* dirCmds: the commands sent for them; listed: the listing the existence
\* check read, when it was made (checked); stor: the command storing the
\* file was sent; wrote: the server wrote the file dest; unclosed: the call
\* opened the local file and ended without closing it.
Failure(s, n) ==
    [s |-> s, raised |-> TRUE, outcome |-> "error", n |-> n, dirDone |-> FALSE,
     dirCmds |-> n, listed |-> {}, checked |-> FALSE, stor |-> FALSE,
     wrote |-> FALSE, dest |-> Root, unclosed |-> FALSE]

\* the call got past its directories after dirCmds commands and raised at n
FailureAfterDirs(s, n, dirCmds) ==
    [Failure(s, n) EXCEPT !.dirDone = TRUE, !.dirCmds = dirCmds]

\* the call found the file name in the listing
AlreadyExists(s, n, dirCmds, listed) ==
    [FailureAfterDirs(s, n, dirCmds) EXCEPT !.raised = FALSE, !.outcome = "exists",
                                            !.listed = listed, !.checked = TRUE]

\* the transfer and its verification, seen being the call so far and disk
\* the local files; pre is the number of remote commands sent before the
\* one that stores the file
TransferAndVerify(seen, disk, filenm, remote_filenm, pre, f, stored) ==
    LET s == seen.s
        dest == ResolvePath(s.cwd, remote_filenm)
        nstor == seen.n + pre + 1
        at == [seen EXCEPT !.dest = dest]
    IN  IF filenm \notin DOMAIN disk THEN at
        ELSE IF pre > 0 /\ f \in (seen.n + 1)..(seen.n + pre)
        THEN [at EXCEPT !.n = f, !.unclosed = TRUE]
        ELSE IF ~Writable(s, dest)
        THEN [at EXCEPT !.n = nstor, !.stor = TRUE, !.unclosed = TRUE]
        ELSE IF f = nstor
        THEN [at EXCEPT !.n = nstor, !.stor = TRUE, !.wrote = stored > 0,
                        !.unclosed = TRUE,
                        !.s = IF stored > 0 THEN StoreFile(s, dest, stored) ELSE s]
        ELSE LET s1 == StoreFile(s, dest, stored)
                 done == [at EXCEPT !.n = nstor + 1, !.stor = TRUE,
                                    !.wrote = TRUE, !.s = s1]
             IN  IF f = nstor + 1 THEN done
                 ELSE [done EXCEPT !.raised = FALSE,
                          !.outcome = Verify(s1.files[dest], disk[filenm].size)]

RECURSIVE MakeDirs(_, _, _, _, _)
\* the loop of CornellFTP.upload over the segments k.. of the remote path:
\* nlst(), mkd(directory) when the name is not listed, cwd(directory)
MakeDirs(s, segs, k, n, f) ==
    IF k > Len(segs) THEN [s |-> s, n |-> n, raised |-> FALSE]
    ELSE LET directory == segs[k]
             target == ResolvePath(s.cwd, directory)
             missing == MkdNeeded(directory, Listing(s, s.cwd))
             refused == directory = <<>> \/ target \in s.dirs
                            \/ target \in DOMAIN s.files
             nmkd == IF missing THEN n + 2 ELSE n + 1
             s1 == IF missing THEN [s EXCEPT !.dirs = @ \cup {target}] ELSE s
         IN  IF f = n + 1 THEN [s |-> s, n |-> n + 1, raised |-> TRUE]
             ELSE IF missing /\ (f = nmkd \/ refused)
             THEN [s |-> s, n |-> nmkd, raised |-> TRUE]
             ELSE IF f = nmkd + 1 \/ target \notin s1.dirs
             THEN [s |-> s1, n |-> nmkd + 1, raised |-> TRUE]
             ELSE MakeDirs([s1 EXCEPT !.cwd = target], segs, k + 1, nmkd + 1, f)

\* CornellFTP.upload(filenm, remote_path), disk being the local files
CornellUpload(s, disk, filenm, remote_path, f, stored) ==
    LET d == MakeDirs(s, Split(remote_path, Slash), 1, 0, f)
    IN  IF d.raised THEN Failure(d.s, d.n)
        ELSE IF f = d.n + 1 THEN Failure(d.s, d.n + 1)
        ELSE LET s1 == [d.s EXCEPT !.cwd = Root]
                 remote_filenm == PathJoin(remote_path, filenm)
                 dir == ResolvePath(s1.cwd, remote_path)
                 listed == Listing(s1, dir)
             IN  IF f = d.n + 2 \/ dir \notin s1.dirs
                 THEN FailureAfterDirs(s1, d.n + 2, d.n + 1)
                 ELSE IF ExistsCheck(filenm, listed)
                 THEN AlreadyExists(s1, d.n + 2, d.n + 1, listed)
                 ELSE TransferAndVerify(
                          [FailureAfterDirs(s1, d.n + 2, d.n + 1)
                              EXCEPT !.listed = listed, !.checked = TRUE],
                          disk, filenm, remote_filenm, 1, f, stored)

RECURSIVE SftpMkdirs(_, _, _, _, _, _, _)
\* the loop of UBCSFTP.upload over the segments k.. of the remote path:
\* sftp.mkdir(path), an IOError being passed over; io tells whether the
\* transport failure is an IOError
SftpMkdirs(s, path, segs, k, n, f, io) ==
    IF k > Len(segs) THEN [s |-> s, n |-> n, raised |-> FALSE]
    ELSE LET path1 == PathJoin(path, segs[k])
             target == ResolvePath(s.cwd, path1)
             creatable == Writable(s, target) /\ target \notin DOMAIN s.files
         IN  IF f = n + 1
             THEN IF io THEN SftpMkdirs(s, path1, segs, k + 1, n + 1, f, io)
                  ELSE [s |-> s, n |-> n + 1, raised |-> TRUE]
             ELSE SftpMkdirs(IF creatable THEN [s EXCEPT !.dirs = @ \cup {target}] ELSE s,
                             path1, segs, k + 1, n + 1, f, io)

\* UBCSFTP.upload(filenm, remote_path), disk being the local files; the
\* local file is opened and closed by sftp.put, not by the method
UBCUpload(s, disk, filenm, remote_path, f, io, stored) ==
    LET d == SftpMkdirs(s, <<Slash>>, Split(remote_path, Slash), 1, 0, f, io)
        remote_filenm == PathJoin(remote_path, filenm)
        dir == ResolvePath(d.s.cwd, remote_path)
        listed == Listing(d.s, dir)
    IN  IF d.raised THEN Failure(d.s, d.n)
        ELSE IF f = d.n + 1 \/ dir \notin d.s.dirs
        THEN FailureAfterDirs(d.s, d.n + 1, d.n)
        ELSE IF ExistsCheck(filenm, listed)
        THEN AlreadyExists(d.s, d.n + 1, d.n, listed)
        ELSE [TransferAndVerify(
                  [FailureAfterDirs(d.s, d.n + 1, d.n)
                      EXCEPT !.listed = listed, !.checked = TRUE],
                  disk, filenm, remote_filenm, 0, f, stored)
              EXCEPT !.unclosed = FALSE]

(***************************************************************************)
(* bin/nanoUpload.py: the batch run.                                       *)
(***************************************************************************)
\* parse_arguments(args)
parse_arguments(args) ==
    IF Len(args) = 0 \/ \E j \in 1..Len(args) : args[j] \in {opt_h, opt_help}
    THEN <<>>
    ELSE IF \E j \in 1..Len(args) : StartsWith(args[j], "-") THEN <<>>
    ELSE args

\* mutant: an upload that raised is tried again
AfterAttempt_retry(pass, raised, idx) ==
    [pc |-> pass, i |-> IF raised THEN idx ELSE idx + 1]

\* mutant: each item goes to both stores before the next item, as in the
\* loop of the older nanoUpload.py
AfterAttempt_interleaved(pass, raised, idx) ==
    IF pass = "cornell" THEN [pc |-> "ubc", i |-> idx]
    ELSE [pc |-> "cornell", i |-> idx + 1]

\* where the run goes on after the attempt on item idx of a pass, whether
\* the upload raised or not: the next turn of the same loop
AfterAttempt(pass, raised, idx) == [pc |-> pass, i |-> idx + 1]

\* the remote trees a run may find: directory paths and files already there
remote_b_dir == <<"N", "A", "N", "O", "G", "r", "a", "v", "/", "B", "2", "/", "P", "U", "P", "P", "I", "/", "2", "0", "1", "2", "/", "r", "a", "w", "d", "a", "t", "a", "/", "d">>
remote_b_file == <<"N", "A", "N", "O", "G", "r", "a", "v", "/", "B", "2", "/", "P", "U", "P", "P", "I", "/", "2", "0", "1", "2", "/", "r", "a", "w", "d", "a", "t", "a", "/", "d", "/", "b", ".", "f", "i", "t", "s">>
remote_ubc_b_dir == <<"/", "d", "s", "t", "o", "r", "e", "/", "d", "a", "t", "a", "/", "2", "/", "p", "u", "p", "p", "i", "/", "d">>

Prefixes(q) == { SubSeq(q, 1, j) : j \in 0..Len(q) }

EmptyTree == [dirs |-> {Root}, files |-> <<>>]

InitWorlds ==
    { [cornell |-> EmptyTree, ubc |-> EmptyTree],
      [cornell |-> [dirs |-> Prefixes(ResolvePath(Root, remote_b_dir)),
                    files |-> (ResolvePath(Root, remote_b_file) :> 1)],
       ubc |-> [dirs |-> Prefixes(ResolvePath(Root, remote_ubc_b_dir)),
                files |-> <<>>]] }

\* all command lines of up to n input names
ArgLists(n) == UNION { [1..m -> InputNames] : m \in 0..n }

VARIABLES
    argv,       \* sys.argv[1:]
    pc,         \* where the run is
    infilenms,  \* the input files left by parse_arguments
    k,          \* the input file the resolving loop is at
    uploads,    \* the work list: <<file, Cornell directory, UBC directory>>
    i,          \* the work item the current pass is at
    cftp,       \* the Cornell session and the tree of its server
    ubcsftp,    \* the UBC session and the tree of its server
    faults,     \* anomalies the environment has produced so far
    log,        \* the upload attempts made, in order
    unclosed,   \* bin/nanoUpload.py: local files opened and not closed
    exitcode,   \* bin/nanoUpload.py: the exit code, -1 while it runs
    manifest,   \* the lines of the manifest one turn of the loop is given
    rfile,      \* the FITS file one turn of the loop is given, or None
    fpc,        \* where that turn of the loop is
    entries,    \* what parse_metafile returned for the manifest
    items,      \* the work items the turn appended
    written,    \* the files write_ephemeris has written on the local disk
    cur,        \* older nanoUpload.py: ephemeris status and paths of the file
    epoch,      \* an instant: year, month, day and second of the day
    years       \* the years derived from the two headers of that instant

\* the state of the batch run
runVars == <<argv, pc, infilenms, k, uploads, i, cftp, ubcsftp, faults, log,
             unclosed, exitcode>>
\* the state of one turn of the resolving loop taken by itself
resolveVars == <<manifest, rfile, fpc, entries, items>>
\* the state of the older nanoUpload.py that the batch run has not
oldVars == <<written, cur>>
\* the state of the year derivation taken by itself
epochVars == <<epoch, years>>
\* what a batch run leaves alone
notRun == <<resolveVars, oldVars, epochVars>>
\* what a turn of the resolving loop taken by itself leaves alone
notResolve == <<runVars, oldVars, epochVars>>

vars == <<runVars, resolveVars, oldVars, epochVars>>

Session(tree) == [conn |-> "none", cwd |-> Root, dirs |-> tree.dirs, files |-> tree.files]

\* no turn of the resolving loop is looked at by itself
ResolveIdle ==
    /\ manifest = <<>>
    /\ rfile = None
    /\ fpc = "idle"
    /\ entries = <<>>
    /\ items = <<>>

\* the older nanoUpload.py is not running
NoCur == [status |-> 1, ephemfilenm |-> None, cornell_path |-> <<>>, ubc_path |-> <<>>]
OldIdle == written = <<>> /\ cur = NoCur

\* no year has been derived
NoYears == [prog |-> "none", direct |-> None, encoded |-> None]
NoEpoch == [y |-> 0, m |-> 0, d |-> 0, s |-> 0]
EpochIdle == epoch = NoEpoch /\ years = NoYears

Init ==
    /\ ResolveIdle
    /\ OldIdle
    /\ EpochIdle
    /\ argv \in ArgLists(MaxInputs)
    /\ \E w \in InitWorlds : cftp = Session(w.cornell) /\ ubcsftp = Session(w.ubc)
    /\ pc = "start"
    /\ infilenms = <<>>
    /\ k = 1
    /\ uploads = <<>>
    /\ i = 1
    /\ faults = 0
    /\ log = <<>>
    /\ unclosed = {}
    /\ exitcode = -1

\* lines 152-154: parse the command line, leave when nothing is to be done
ParseArguments ==
    /\ pc = "start"
    /\ infilenms' = parse_arguments(argv)
    /\ pc' = IF Len(infilenms') = 0 THEN "exit" ELSE "resolve"
    /\ exitcode' = IF Len(infilenms') = 0 THEN 0 ELSE exitcode
    /\ UNCHANGED <<argv, k, uploads, i, cftp, ubcsftp, faults, log, unclosed>>
    /\ UNCHANGED notRun

\* lines 159-207: one turn of the loop over the input files
Resolve ==
    /\ pc = "resolve"
    /\ k <= Len(infilenms)
    /\ LET r == ResolveInput(infilenms[k])
       IN  IF r.raised
           THEN /\ pc' = "crashed"
                /\ exitcode' = 1
                /\ UNCHANGED <<uploads, k>>
           ELSE /\ uploads' = uploads \o r.items
                /\ k' = k + 1
                /\ pc' = IF k = Len(infilenms) THEN "connect_cornell" ELSE "resolve"
                /\ UNCHANGED exitcode
    /\ unclosed' = IF determine_filetype(infilenms[k]) = "META"
                   THEN unclosed \cup {<<"parse_metafile", infilenms[k]>>}
                   ELSE unclosed
    /\ UNCHANGED <<argv, infilenms, i, cftp, ubcsftp, faults, log>>
    /\ UNCHANGED notRun

\* line 210: cftp = nanoDBTools.CornellFTP()
ConnectCornell ==
    /\ pc = "connect_cornell"
    /\ \E ok \in BOOLEAN :
          /\ ok \/ faults < MaxFaults
          /\ cftp' = [cftp EXCEPT !.conn = IF ok THEN "open" ELSE "none"]
          /\ pc' = IF ok THEN "connect_ubc" ELSE "crashed"
          /\ faults' = IF ok THEN faults ELSE faults + 1
          /\ exitcode' = IF ok THEN exitcode ELSE 1
    /\ UNCHANGED <<argv, infilenms, k, uploads, i, ubcsftp, log, unclosed>>
    /\ UNCHANGED notRun

\* line 211: ubcsftp = nanoDBTools.UBCSFTP()
ConnectUBC ==
    /\ pc = "connect_ubc"
    /\ \E ok \in BOOLEAN :
          /\ ok \/ faults < MaxFaults
          /\ ubcsftp' = [ubcsftp EXCEPT !.conn = IF ok THEN "open" ELSE "none"]
          /\ pc' = IF ok THEN "cornell" ELSE "crashed"
          /\ faults' = IF ok THEN faults ELSE faults + 1
          /\ exitcode' = IF ok THEN exitcode ELSE 1
    /\ i' = 1
    /\ UNCHANGED <<argv, infilenms, k, uploads, cftp, log, unclosed>>
    /\ UNCHANGED notRun

\* the transport failure f took place in the call with result r
FaultFired(r, f) == f >= 1 /\ f <= r.n

\* 1 when the call with result r met an anomaly: a transport failure, or
\* a transfer that stored another number of bytes than the file has
Anomaly(r, f, stored, size) ==
    IF FaultFired(r, f) \/ (r.stor /\ stored /= size) THEN 1 ELSE 0

\* the commands at which the environment can make a call fail, the call
\* sending cmds commands when none fails
FaultChoices(cmds) == IF faults < MaxFaults THEN 0..cmds ELSE {0}

\* the byte counts the server can keep of a transfer of size bytes
StoredChoices(reached, size) ==
    IF reached /\ faults < MaxFaults THEN 0..size ELSE {size}

\* the record of an attempt: the call, the session before it, the inputs of
\* the environment (faultAt: the command that failed, 0 for none) and the
\* result
Entry(store, idx, filenm, remote_path, before, f, stored, r) ==
    [store |-> store, idx |-> idx, file |-> filenm, path |-> remote_path,
     before |-> before, faultAt |-> IF FaultFired(r, f) THEN f ELSE 0,
     stored |-> stored, r |-> r]

\* lines 217-230: one turn of the Cornell pass
CornellAttempt ==
    /\ pc = "cornell"
    /\ i <= Len(uploads)
    /\ LET upload == uploads[i]
           size == LocalFS[upload[1]].size
           plain == CornellUpload(cftp, LocalFS, upload[1], upload[2], 0, size)
       IN  \E f \in FaultChoices(plain.n) :
              LET whole == IF f = 0 THEN plain
                           ELSE CornellUpload(cftp, LocalFS, upload[1], upload[2], f, size)
              IN  \E stored \in StoredChoices(whole.stor, size) :
                     LET r == IF stored = size THEN whole
                              ELSE CornellUpload(cftp, LocalFS, upload[1], upload[2], f, stored)
                     IN  /\ faults + Anomaly(r, f, stored, size) <= MaxFaults
                         /\ faults' = faults + Anomaly(r, f, stored, size)
                         /\ cftp' = r.s
                         /\ unclosed' = IF r.unclosed
                                        THEN unclosed \cup {<<"upload", upload[1]>>}
                                        ELSE unclosed
                         /\ log' = Append(log, Entry("cornell", i, upload[1],
                                                upload[2], cftp, f, stored, r))
                         /\ pc' = AfterAttempt("cornell", r.raised, i).pc
                         /\ i' = AfterAttempt("cornell", r.raised, i).i
    /\ UNCHANGED <<argv, infilenms, k, uploads, ubcsftp, exitcode>>
    /\ UNCHANGED notRun

\* line 233: the Cornell pass is over
CornellPassEnd ==
    /\ pc = "cornell"
    /\ i > Len(uploads)
    /\ pc' = "ubc"
    /\ i' = 1
    /\ UNCHANGED <<argv, infilenms, k, uploads, cftp, ubcsftp, faults, log, unclosed, exitcode>>
    /\ UNCHANGED notRun

\* lines 237-249: one turn of the UBC pass
UBCAttempt ==
    /\ pc = "ubc"
    /\ i <= Len(uploads)
    /\ LET upload == uploads[i]
           size == LocalFS[upload[1]].size
           plain == UBCUpload(ubcsftp, LocalFS, upload[1], upload[3], 0, TRUE, size)
       IN  \E f \in FaultChoices(plain.n), io \in BOOLEAN :
              /\ f = 0 => io
              /\ LET whole == IF f = 0 THEN plain
                              ELSE UBCUpload(ubcsftp, LocalFS, upload[1], upload[3], f, io, size)
                 IN  \E stored \in StoredChoices(whole.stor, size) :
                        LET r == IF stored = size THEN whole
                                 ELSE UBCUpload(ubcsftp, LocalFS, upload[1], upload[3], f, io, stored)
                        IN  /\ faults + Anomaly(r, f, stored, size) <= MaxFaults
                            /\ faults' = faults + Anomaly(r, f, stored, size)
                            /\ ubcsftp' = r.s
                            /\ log' = Append(log, Entry("ubc", i, upload[1],
                                                upload[3], ubcsftp, f, stored, r))
                            /\ pc' = AfterAttempt("ubc", r.raised, i).pc
                            /\ i' = AfterAttempt("ubc", r.raised, i).i
    /\ UNCHANGED <<argv, infilenms, k, uploads, cftp, unclosed, exitcode>>
    /\ UNCHANGED notRun

\* line 251: the UBC pass is over
UBCPassEnd ==
    /\ pc = "ubc"
    /\ i > Len(uploads)
    /\ pc' = "close"
    /\ UNCHANGED <<argv, infilenms, k, uploads, i, cftp, ubcsftp, faults, log, unclosed, exitcode>>
    /\ UNCHANGED notRun

\* lines 253-254: cftp.close(); ubcsftp.close()
Close ==
    /\ pc = "close"
    /\ cftp' = [cftp EXCEPT !.conn = "closed"]
    /\ ubcsftp' = [ubcsftp EXCEPT !.conn = "closed"]
    /\ pc' = "done"
    /\ exitcode' = 0
    /\ UNCHANGED <<argv, infilenms, k, uploads, i, faults, log, unclosed>>
    /\ UNCHANGED notRun

Next ==
    \/ ParseArguments
    \/ Resolve
    \/ ConnectCornell
    \/ ConnectUBC
    \/ CornellAttempt
    \/ CornellPassEnd
    \/ UBCAttempt
    \/ UBCPassEnd
    \/ Close

Spec == Init /\ [][Next]_vars

(***************************************************************************)
(* One turn of the loop over the input files, taken by itself: the input   *)
(* is a manifest of any text of up to MaxLines lines, or a FITS file.      *)
(***************************************************************************)
\* the lines a manifest is made of
ManifestLines ==
    {line_a, line_nsub, line_toa, line_g, line_w, line_x, line_time, line_colon}

\* all texts of up to n lines
Texts(n) == UNION { [1..m -> ManifestLines] : m \in 0..n }

\* the FITS files a turn may be given, one of them missing from the disk
DirectNames == {a_fits, b_fits, g_fits, w_fits, x_fits, gone_fits}

\* no batch is under way
RunIdle ==
    /\ argv = <<>>
    /\ pc = "idle"
    /\ infilenms = <<>>
    /\ k = 1
    /\ uploads = <<>>
    /\ i = 1
    /\ cftp = Session(EmptyTree)
    /\ ubcsftp = Session(EmptyTree)
    /\ faults = 0
    /\ log = <<>>
    /\ unclosed = {}
    /\ exitcode = -1

InitResolve ==
    /\ RunIdle
    /\ OldIdle
    /\ EpochIdle
    /\ \/ manifest \in Texts(MaxLines) /\ rfile = None
       \/ manifest = <<>> /\ rfile \in DirectNames
    /\ fpc = "type"
    /\ entries = <<>>
    /\ items = <<>>

\* line 161: filetype = determine_filetype(infilenm)
DetermineFiletype ==
    /\ fpc = "type"
    /\ LET filetype == IF rfile /= None THEN determine_filetype(rfile)
                       ELSE TextType(manifest)
       IN  fpc' = CASE filetype = "META" -> "parse"
                    [] filetype = "FITS" -> "direct"
                    [] filetype = "UNKNOWN" -> "end"
                    [] OTHER -> "raised"
    /\ UNCHANGED <<manifest, rfile, entries, items>>
    /\ UNCHANGED notResolve

\* line 164: nanoDBTools.parse_metafile(infilenm)
ParseMetafile ==
    /\ fpc = "parse"
    /\ entries' = MetafileEntries(manifest)
    /\ fpc' = "resolve"
    /\ UNCHANGED <<manifest, rfile, items>>
    /\ UNCHANGED notResolve

\* lines 164-185: the loop over the entries, then the manifest itself (m.txt)
ResolveManifest ==
    /\ fpc = "resolve"
    /\ LET r == ResolveMeta(m_txt, entries)
       IN  /\ fpc' = IF r.raised THEN "raised" ELSE "end"
           /\ items' = r.items
    /\ UNCHANGED <<manifest, rfile, entries>>
    /\ UNCHANGED notResolve

\* lines 189-203: a FITS file given on the command line
ResolveDirect ==
    /\ fpc = "direct"
    /\ LET r == ResolveFits(rfile)
       IN  /\ fpc' = IF r.raised THEN "raised" ELSE "end"
           /\ items' = r.items
    /\ UNCHANGED <<manifest, rfile, entries>>
    /\ UNCHANGED notResolve

NextResolve ==
    \/ DetermineFiletype
    \/ ParseMetafile
    \/ ResolveManifest
    \/ ResolveDirect

SpecResolve == InitResolve /\ [][NextResolve]_vars

(***************************************************************************)
(* The older nanoUpload.py: each file goes to both stores, followed by its *)
(* ephemeris when one was written.                                         *)
(***************************************************************************)
dot_fits == <<".", "f", "i", "t", "s">>
dot_par == <<".", "p", "a", "r">>
slash_dstore == <<"/", "d", "s", "t", "o", "r", "e">>

RECURSIVE Replace(_, _, _)
\* str.replace(old, new)
Replace(s, old, new) ==
    IF Len(s) < Len(old) \/ Len(old) = 0 THEN s
    ELSE IF SubSeq(s, 1, Len(old)) = old
    THEN new \o Replace(SubSeq(s, Len(old) + 1, Len(s)), old, new)
    ELSE <<s[1]>> \o Replace(Tail(s), old, new)

\* the local files as the uploads find them
Disk == written @@ LocalFS

\* mutant: a par file is written whatever the backend is
write_ephemeris_always(filenm) ==
    IF filenm \notin DOMAIN Disk
    THEN [raised |-> TRUE, status |-> 1, outfilenm |-> None]
    ELSE [raised |-> FALSE, status |-> 0, outfilenm |-> Replace(filenm, dot_fits, dot_par)]

\* write_ephemeris(filenm): status 0 and the par file written for a GUPPI
\* or PUPPI archive, status 1 and no file for any other
write_ephemeris(filenm) ==
    IF filenm \notin DOMAIN Disk \/ Disk[filenm].kind /= "fits"
           \/ "BACKEND" \notin DOMAIN Disk[filenm].hdr
    THEN [raised |-> TRUE, status |-> 1, outfilenm |-> None]
    ELSE IF Disk[filenm].hdr["BACKEND"] \in {GUPPI, PUPPI}
    THEN [raised |-> FALSE, status |-> 0, outfilenm |-> Replace(filenm, dot_fits, dot_par)]
    ELSE [raised |-> FALSE, status |-> 1, outfilenm |-> None]

\* lines 270-288 of get_remote_paths: the paths from the header; exit: the
\* function ends the process
get_remote_paths_hdr(hdr) ==
    LET source == hdr["SRC_NAME"]
        known == hdr["BACKEND"] \in {GUPPI, PUPPI, xASP}
        backend == IF hdr["BACKEND"] = xASP THEN ASP ELSE hdr["BACKEND"]
        year == IF hdr["BACKEND"] = xASP
                THEN YearOfEpoch(hdr["STT_IMJD"], hdr["STT_SMJD"])
                ELSE Split(hdr["DATE-OBS"], "-")[1]
    IN  IF ~known THEN [exit |-> TRUE, cornell_path |-> <<>>, ubc_path |-> <<>>]
        ELSE [exit |-> FALSE,
              cornell_path |-> PathJoinAll(<<source, backend, year, rawdata>>),
              ubc_path |-> PathJoinAll(<<Strip(Strip(source, {"B"}), {"J"}),
                                         Lower(backend)>>)]

\* get_remote_paths(filenm)
get_remote_paths(filenm) == get_remote_paths_hdr(Disk[filenm].hdr)

\* the input files of a run of the older program; p.rf is an archive whose
\* name has no ".fits"
OldInputNames == {g_fits, b_fits, x_fits, w_fits, p_rf, gone_fits}

InitOld ==
    /\ ResolveIdle
    /\ OldIdle
    /\ EpochIdle
    /\ argv \in UNION { [1..m -> OldInputNames] : m \in 0..MaxOldInputs }
    /\ cftp = Session(EmptyTree)
    /\ ubcsftp = Session(EmptyTree)
    /\ pc = "old_start"
    /\ infilenms = <<>>
    /\ k = 1
    /\ uploads = <<>>
    /\ i = 1
    /\ faults = 0
    /\ log = <<>>
    /\ unclosed = {}
    /\ exitcode = -1

\* lines 294-310: the arguments are checked, then both sessions are opened
OldStart ==
    /\ pc = "old_start"
    /\ IF parse_arguments(argv) = <<>>
       THEN pc' = "exit" /\ UNCHANGED <<cftp, ubcsftp, faults>>
       ELSE \E c \in BOOLEAN, u \in BOOLEAN :
               /\ (c /\ u) \/ faults < MaxFaults
               /\ cftp' = [cftp EXCEPT !.conn = IF c THEN "open" ELSE "none"]
               /\ ubcsftp' = [ubcsftp EXCEPT !.conn = IF c /\ u THEN "open" ELSE "none"]
               /\ pc' = IF c /\ u THEN "old_prepare" ELSE "crashed"
               /\ faults' = IF c /\ u THEN faults ELSE faults + 1
    /\ UNCHANGED <<argv, infilenms, k, uploads, i, log, written, cur>>
    /\ UNCHANGED <<unclosed, exitcode>>
    /\ UNCHANGED <<resolveVars, epochVars>>

\* lines 312-324: the ephemeris and the remote paths of the file; when the
\* par file was written over the input file itself, PF.open of
\* get_remote_paths raises on it
OldPrepare ==
    /\ pc = "old_prepare"
    /\ LET infilenm == argv[i]
           e == write_ephemeris(infilenm)
       IN  IF e.raised
           THEN pc' = "crashed" /\ UNCHANGED <<written, cur>>
           ELSE /\ written' = IF e.status = 0
                               THEN (e.outfilenm :> TextFile(<<>>)) @@ written
                               ELSE written
                /\ LET g == get_remote_paths(infilenm)
                   IN  IF e.status = 0 /\ e.outfilenm = infilenm
                       THEN pc' = "crashed" /\ UNCHANGED cur
                       ELSE IF g.exit
                       THEN pc' = "exit" /\ UNCHANGED cur
                       ELSE /\ pc' = "old_cornell"
                            /\ cur' = [status |-> e.status,
                                       ephemfilenm |-> e.outfilenm,
                                       cornell_path |-> PathJoin(NANOGrav, g.cornell_path),
                                       ubc_path |-> PathJoinAll(<<slash_dstore, data, g.ubc_path>>)]
    /\ UNCHANGED <<argv, infilenms, k, uploads, i, cftp, ubcsftp, faults, log>>
    /\ UNCHANGED <<unclosed, exitcode>>
    /\ UNCHANGED <<resolveVars, epochVars>>

\* no call sends more remote commands than this: three for each segment of
\* the path and five for the file
CmdBound(remote_path) == 3 * Len(Split(remote_path, Slash)) + 5

\* what the environment can do to a call that uploads size bytes: fail the
\* command f (0: none), as an IOError or not, and keep stored bytes
Environment(remote_path, size) ==
    { e \in [f : FaultChoices(CmdBound(remote_path)), io : BOOLEAN,
             stored : StoredChoices(TRUE, size)] :
        /\ e.f = 0 => e.io
        /\ e.f = 0 \/ e.stored = size }

\* the call with result r under the environment e was made: the anomaly is
\* counted, the attempt is logged and the loop goes on at next
OldAttempted(store, filenm, remote_path, before, e, r, next) ==
    /\ e.f = 0 \/ FaultFired(r, e.f)
    /\ e.stored = Disk[filenm].size \/ r.stor
    /\ faults' = faults + Anomaly(r, e.f, e.stored, Disk[filenm].size)
    /\ log' = Append(log, Entry(store, i, filenm, remote_path, before,
                                e.f, e.stored, r))
    /\ pc' = next.pc
    /\ i' = next.i

\* a call of cftp.upload in the loop, its exception caught
OldCornellCall(filenm, next) ==
    \E e \in Environment(cur.cornell_path, Disk[filenm].size) :
        LET r == CornellUpload(cftp, Disk, filenm, cur.cornell_path, e.f, e.stored)
        IN  /\ OldAttempted("cornell", filenm, cur.cornell_path, cftp, e, r, next)
            /\ cftp' = r.s
            /\ UNCHANGED ubcsftp

\* a call of ubcsftp.upload in the loop, its exception caught
OldUBCCall(filenm, next) ==
    \E e \in Environment(cur.ubc_path, Disk[filenm].size) :
        LET r == UBCUpload(ubcsftp, Disk, filenm, cur.ubc_path, e.f, e.io, e.stored)
        IN  /\ OldAttempted("ubc", filenm, cur.ubc_path, ubcsftp, e, r, next)
            /\ ubcsftp' = r.s
            /\ UNCHANGED cftp

\* the next turn of the loop over the arguments, or its end
OldNextFile == [pc |-> IF i < Len(argv) THEN "old_prepare" ELSE "old_close", i |-> i + 1]

\* lines 326-330: cftp.upload(infilenm, cornell_path)
OldUploadCornell ==
    /\ pc = "old_cornell"
    /\ OldCornellCall(argv[i], [pc |-> "old_ubc", i |-> i])
    /\ UNCHANGED <<argv, infilenms, k, uploads, written, cur>>
    /\ UNCHANGED <<unclosed, exitcode>>
    /\ UNCHANGED <<resolveVars, epochVars>>

\* lines 332-338: ubcsftp.upload(infilenm, ubc_path)
OldUploadUBC ==
    /\ pc = "old_ubc"
    /\ OldUBCCall(argv[i], IF cur.status = 0
                           THEN [pc |-> "old_par_cornell", i |-> i]
                           ELSE OldNextFile)
    /\ UNCHANGED <<argv, infilenms, k, uploads, written, cur>>
    /\ UNCHANGED <<unclosed, exitcode>>
    /\ UNCHANGED <<resolveVars, epochVars>>

\* lines 339-343: cftp.upload(ephemfilenm, cornell_path)
OldEphemerisCornell ==
    /\ pc = "old_par_cornell"
    /\ OldCornellCall(cur.ephemfilenm, [pc |-> "old_par_ubc", i |-> i])
    /\ UNCHANGED <<argv, infilenms, k, uploads, written, cur>>
    /\ UNCHANGED <<unclosed, exitcode>>
    /\ UNCHANGED <<resolveVars, epochVars>>

\* lines 345-349: ubcsftp.upload(ephemfilenm, ubc_path)
OldEphemerisUBC ==
    /\ pc = "old_par_ubc"
    /\ OldUBCCall(cur.ephemfilenm, OldNextFile)
    /\ UNCHANGED <<argv, infilenms, k, uploads, written, cur>>
    /\ UNCHANGED <<unclosed, exitcode>>
    /\ UNCHANGED <<resolveVars, epochVars>>

\* lines 351-352: cftp.close(); ubcsftp.close()
OldClose ==
    /\ pc = "old_close"
    /\ cftp' = [cftp EXCEPT !.conn = "closed"]
    /\ ubcsftp' = [ubcsftp EXCEPT !.conn = "closed"]
    /\ pc' = "done"
    /\ UNCHANGED <<argv, infilenms, k, uploads, i, faults, log, written, cur>>
    /\ UNCHANGED <<unclosed, exitcode>>
    /\ UNCHANGED <<resolveVars, epochVars>>

NextOld ==
    \/ OldStart
    \/ OldPrepare
    \/ OldUploadCornell
    \/ OldUploadUBC
    \/ OldEphemerisCornell
    \/ OldEphemerisUBC
    \/ OldClose

SpecOld == InitOld /\ [][NextOld]_vars

(***************************************************************************)
(* The year derivation taken by itself: one instant, written in a header   *)
(* as a date and as day number and second of day, given to parse_archive   *)
(* and to get_remote_paths of the older nanoUpload.py.                     *)
(***************************************************************************)
FirstYear == 2010
MaxYears == 4

LeapYear(y) == (y % 4 = 0 /\ y % 100 /= 0) \/ y % 400 = 0

\* month and day of the dates taken in a year
DatesOf(y) ==
    {<<1, 1>>, <<1, 2>>, <<2, 28>>, <<3, 1>>, <<6, 15>>, <<12, 30>>, <<12, 31>>}
        \cup (IF LeapYear(y) THEN {<<2, 29>>} ELSE {})

\* the seconds of day taken: the ends of the day, their neighbours, noon
SecondsOfDay == {0, 1, SECPERDAY \div 2, SECPERDAY - 2, SECPERDAY - 1}

\* the instants taken
Epochs ==
    UNION { { [y |-> y, m |-> md[1], d |-> md[2], s |-> s] :
                md \in DatesOf(y), s \in SecondsOfDay } :
            y \in FirstYear..(FirstYear + MaxYears - 1) }

\* the Modified Julian Day number of a date of the Gregorian calendar
\* (1901 to 2099): what the backend writes to STT_IMJD
DayNumber(y, m, d) ==
    367 * y - (7 * (y + (m + 9) \div 12)) \div 4 + (275 * m) \div 9 + d - 678987

\* n in two digits
TwoDigits(n) == <<Digits[(n \div 10) + 1], Digits[(n % 10) + 1]>>

\* the instant as DATE-OBS has it: YYYY-MM-DDThh:mm:ss
DateObs(e) ==
    IntToStr(e.y) \o <<"-">> \o TwoDigits(e.m) \o <<"-">> \o TwoDigits(e.d)
        \o <<"T">> \o TwoDigits(e.s \div 3600) \o <<":">>
        \o TwoDigits((e.s % 3600) \div 60) \o <<":">> \o TwoDigits(e.s % 60)

\* the two headers of the instant: date field, day number and second of day
DirectHeader(e) == Header(J1, PUPPI, DateObs(e))
EncodedHeader(e) == AspHeader(J1, DayNumber(e.y, e.m, e.d), e.s)

InitEpoch ==
    /\ RunIdle
    /\ ResolveIdle
    /\ OldIdle
    /\ epoch \in Epochs
    /\ years = NoYears

\* bin/nanoUpload.py: parse_archive on each of the two headers
ParseArchiveYears ==
    /\ years = NoYears
    /\ years' = [prog |-> "bin",
                 direct |-> parse_archive_hdr(DirectHeader(epoch)).year,
                 encoded |-> parse_archive_hdr(EncodedHeader(epoch)).year]
    /\ UNCHANGED <<epoch, runVars, resolveVars, oldVars>>

\* older nanoUpload.py: get_remote_paths on each of the two headers; the
\* year is the third component of the Cornell path
RemotePathYears ==
    /\ years = NoYears
    /\ years' = [prog |-> "old",
                 direct |-> Split(get_remote_paths_hdr(DirectHeader(epoch)).cornell_path, Slash)[3],
                 encoded |-> Split(get_remote_paths_hdr(EncodedHeader(epoch)).cornell_path, Slash)[3]]
    /\ UNCHANGED <<epoch, runVars, resolveVars, oldVars>>

NextEpoch ==
    \/ ParseArchiveYears
    \/ RemotePathYears

SpecEpoch == InitEpoch /\ [][NextEpoch]_vars

(***************************************************************************)
(* Properties of the upload calls.                                         *)
(***************************************************************************)
\* the attempts j and j + 1 are two calls in succession of the same upload
\* on the same session
SameCallTwice(j) ==
    /\ j + 1 <= Len(log)
    /\ log[j].store = log[j + 1].store
    /\ log[j].file = log[j + 1].file
    /\ log[j].path = log[j + 1].path

\* the transfer of an attempt went through: the file was stored and verified
TransferCompleted(e) == e.r.outcome \in {"success", "mismatch"}

\* C1: when upload(file, dir) is called twice in succession on a session and
\* the first call's transfer completes, the second call transfers nothing,
\* and takes the 'already exists' branch unless the transport fails in it;
\* for every form of file name.
C1_SecondCallTransfersNothing ==
    \A j \in 1..Len(log) :
        SameCallTwice(j) /\ TransferCompleted(log[j])
            => /\ ~log[j + 1].r.stor
               /\ log[j + 1].faultAt = 0 => log[j + 1].r.outcome = "exists"

\* C2: upload never overwrites: when the listing of the remote directory has
\* the base name of the local file, nothing is transferred; and no file that
\* was on the server before a call is written by the call.
C2_NeverOverwrites ==
    \A j \in 1..Len(log) :
        /\ log[j].r.checked /\ BaseName(log[j].file) \in log[j].r.listed
              => ~log[j].r.stor
        /\ \A q \in DOMAIN log[j].before.files :
              /\ q \in DOMAIN log[j].r.s.files
              /\ log[j].r.s.files[q] = log[j].before.files[q]
              /\ ~(log[j].r.wrote /\ log[j].r.dest = q)

\* C3: every call of CornellFTP.upload starts and ends with the session at
\* the root, whatever failed in the calls before it.
C3_CornellSessionAtRoot ==
    /\ cftp.cwd = Root
    /\ \A j \in 1..Len(log) :
          log[j].store = "cornell"
              => log[j].before.cwd = Root /\ log[j].r.s.cwd = Root

(***************************************************************************)
(* Properties of the batch.                                                *)
(***************************************************************************)
Stores == {"cornell", "ubc"}

\* how often item idx was attempted on a store
AttemptsOn(store, idx) ==
    Cardinality({ j \in 1..Len(log) : log[j].store = store /\ log[j].idx = idx })

\* the attempts made on a store
AttemptsAt(store) == Cardinality({ j \in 1..Len(log) : log[j].store = store })

\* C4: every (work item, store) pair is attempted exactly once, whichever
\* uploads raise: never twice, each attempt is the call for its work item,
\* a pass has attempted every item before its end, and an item whose upload
\* raised is followed by the next item.
C4_EachPairAttemptedOnce ==
    /\ \A store \in Stores, idx \in 1..Len(uploads) : AttemptsOn(store, idx) <= 1
    /\ \A j \in 1..Len(log) :
          /\ log[j].idx \in 1..Len(uploads)
          /\ log[j].file = uploads[log[j].idx][1]
          /\ log[j].path = uploads[log[j].idx][IF log[j].store = "cornell" THEN 2 ELSE 3]
    /\ pc \in Stores => \A idx \in 1..Len(uploads) :
          AttemptsOn(pc, idx) = IF idx < i THEN 1 ELSE 0
    /\ pc \in {"ubc", "close", "done"} =>
          \A idx \in 1..Len(uploads) : AttemptsOn("cornell", idx) = 1
    /\ pc \in {"close", "done"} =>
          \A idx \in 1..Len(uploads) : AttemptsOn("ubc", idx) = 1

\* C4 witness: a run of two or more items that ended after the upload of
\* its first item to Cornell raised
C4_Witness ==
    /\ pc = "done"
    /\ Len(uploads) >= 2
    /\ log[1].r.raised
    /\ \A store \in Stores, idx \in 1..Len(uploads) : AttemptsOn(store, idx) = 1

\* the order of the attempts of a run over n work items
PassOrder(n) ==
    [j \in 1..(2 * n) |-> IF j <= n THEN <<"cornell", j>> ELSE <<"ubc", j - n>>]

\* C5: the attempts are made in the order of one full Cornell pass followed
\* by one full UBC pass, each in work-list order; a finished run has made
\* both passes.
C5_CornellPassThenUBCPass ==
    /\ Len(log) <= 2 * Len(uploads)
    /\ \A j \in 1..Len(log) : <<log[j].store, log[j].idx>> = PassOrder(Len(uploads))[j]
    /\ pc = "done" => Len(log) = 2 * Len(uploads)

\* C5 witness: the first UBC attempt of a run of two or more items was made
C5_Witness ==
    /\ pc = "ubc"
    /\ i = 2
    /\ Len(uploads) >= 2
    /\ AttemptsAt("cornell") = Len(uploads)
    /\ AttemptsAt("ubc") = 1

\* the transport failed in none of the commands an attempt sent for its
\* directories
DirsUndisturbed(e) == e.faultAt = 0 \/ e.faultAt > e.r.dirCmds

\* the directories of the remote path of an attempt, from the root
PathDirs(e) == Prefixes(ResolvePath(Root, e.path))

\* C6: directory creation is idempotent on both stores.  A call that starts
\* at the root and whose directory commands the transport does not fail gets
\* through its directories, creates exactly the missing prefixes of the
\* remote path and leaves the session at the root; the same call made again
\* right after it creates nothing, raises nothing in its directories and
\* leaves the tree and the root as they were.
C6_DirectoryCreationIdempotent ==
    \A j \in 1..Len(log) :
        LET e == log[j]
        IN  /\ DirsUndisturbed(e) /\ e.before.cwd = Root
                => /\ e.r.dirDone
                   /\ e.r.s.dirs = e.before.dirs \cup PathDirs(e)
                   /\ e.r.s.cwd = Root
            /\ SameCallTwice(j) /\ DirsUndisturbed(e) /\ e.before.cwd = Root
                 /\ DirsUndisturbed(log[j + 1])
                => /\ log[j + 1].r.dirDone
                   /\ log[j + 1].r.s.dirs = e.r.s.dirs
                   /\ log[j + 1].r.s.cwd = Root

\* the attempts j and j + 1 on a store are the same call made twice, the
\* first one finding some but not all directories of its path
TwiceOverPartialTree(store, j) ==
    /\ SameCallTwice(j)
    /\ log[j].store = store
    /\ DirsUndisturbed(log[j]) /\ DirsUndisturbed(log[j + 1])
    /\ log[j].before.cwd = Root
    /\ Cardinality(PathDirs(log[j]) \cap log[j].before.dirs) > 1
    /\ ~(PathDirs(log[j]) \subseteq log[j].before.dirs)

\* C6 witness: on each store a call was made twice over a tree that had a
\* part of its directories
C6_Witness ==
    /\ \E j \in 1..Len(log) : TwiceOverPartialTree("cornell", j)
    /\ \E j \in 1..Len(log) : TwiceOverPartialTree("ubc", j)

\* the attempt after attempt j is the one for the next pair of the batch
FollowedByNext(j) ==
    IF j < Len(log)
    THEN <<log[j + 1].store, log[j + 1].idx>> =
            IF log[j].idx < Len(uploads) THEN <<log[j].store, log[j].idx + 1>>
            ELSE <<"ubc", 1>>
    ELSE /\ pc \in {"cornell", "ubc", "close", "done"}
         /\ pc = log[j].store => i = log[j].idx + 1

C8_MismatchNeverRepaired ==
    \A j \in 1..Len(log), l \in 1..Len(log) :
        /\ j < l
        /\ log[j].r.outcome = "mismatch"
        /\ log[l].store = log[j].store
        /\ log[l].file = log[j].file
        /\ log[l].path = log[j].path
        /\ log[l].faultAt = 0
        => /\ log[l].r.outcome = "exists"
           /\ ~log[l].r.stor
           /\ log[l].r.s.files[log[j].r.dest] = log[j].stored

(***************************************************************************)
(* Properties of the resolution of the input files.                        *)
(***************************************************************************)
\* a FITS file of the disk whose BACKEND is none of the known kinds
UnrecognizedFits(filenm) ==
    /\ filenm \in DOMAIN LocalFS
    /\ LocalFS[filenm].kind = "fits"
    /\ LocalFS[filenm].hdr["BACKEND"] \notin {GUPPI2, PUPPI, xASP}

\* a FITS file of the disk of a known kind
RecognizedFits(filenm) ==
    /\ filenm \in DOMAIN LocalFS
    /\ LocalFS[filenm].kind = "fits"
    /\ LocalFS[filenm].hdr["BACKEND"] \in {GUPPI2, PUPPI, xASP}

\* the file was attempted on both stores
AttemptedOnBoth(filenm) ==
    \A store \in Stores : \E j \in 1..Len(log) :
        log[j].store = store /\ log[j].file = filenm

C10_UnresolvableInputSkipped ==
    ~(pc = "crashed" /\ k <= Len(infilenms))

(***************************************************************************)
(* Properties of the manifest parser.                                      *)
(***************************************************************************)
\* the place of the first colon of a line, 0 when it has none
FirstColon(line) ==
    IF \E p \in 1..Len(line) : line[p] = Colon
    THEN CHOOSE p \in 1..Len(line) :
             line[p] = Colon /\ \A q \in 1..(p - 1) : line[q] /= Colon
    ELSE 0

\* a line of the form key: value, its key and its value
KeyValueLine(line) == FirstColon(line) > 0
KeyOf(line) == Strip(SubSeq(line, 1, FirstColon(line) - 1), Whitespace)
ValueOf(line) == Strip(SubSeq(line, FirstColon(line) + 1, Len(line)), Whitespace)

\* the marker lines of a text: the lines whose key is ProfileName
Markers(lines) ==
    { j \in 1..Len(lines) : KeyValueLine(lines[j]) /\ KeyOf(lines[j]) = ProfileName }

\* the m-th marker line
MarkerAt(lines, m) ==
    CHOOSE j \in Markers(lines) :
        Cardinality({ x \in Markers(lines) : x <= j }) = m

\* the key/value lines of the entry the marker line j opens: from j up to
\* the next marker line or the end of the text
Block(lines, j) ==
    { l \in j..Len(lines) :
        /\ KeyValueLine(lines[l])
        /\ \A x \in Markers(lines) : ~(j < x /\ x <= l) }

\* the fields of that entry: of the lines of the block with one key, the
\* last one gives the value
FieldsOf(lines, j) ==
    [key \in { KeyOf(lines[l]) : l \in Block(lines, j) } |->
        ValueOf(lines[CHOOSE l \in Block(lines, j) :
                    /\ KeyOf(lines[l]) = key
                    /\ \A x \in Block(lines, j) :
                          KeyOf(lines[x]) = key => x <= l])]

\* the fields of an entry without the type tag
Untagged(entry) == [key \in DOMAIN entry \ {type} |-> entry[key]]

\* parse_metafile has returned for the manifest
Parsed == rfile = None /\ fpc \in {"resolve", "end", "raised"}
              /\ TextType(manifest) = "META"

\* C11: for a manifest with n marker lines parse_metafile returns exactly n
\* entries, in the order of the marker lines, each holding its marker and
\* the key/value lines up to the next marker; the last entry, closed by the
\* end of the file, is among them.
C11_OneEntryPerMarker ==
    Parsed =>
        /\ Len(entries) = Cardinality(Markers(manifest))
        /\ \A m \in 1..Len(entries) :
              Untagged(entries[m]) = FieldsOf(manifest, MarkerAt(manifest, m))

\* the line l is closed by a later marker line, and no line between them
\* has the key of l
ClosedByMarker(lines, l) ==
    \E x \in Markers(lines) :
        /\ l < x
        /\ \A y \in (l + 1)..(x - 1) :
              KeyValueLine(lines[y]) => KeyOf(lines[y]) /= KeyOf(lines[l])

\* C12: only the first colon of a line is a delimiter.  A line key: v1:v2
\* gives the entry it belongs to the field key with the value v1:v2, also
\* when the key is ProfileName: every such line of an entry that a later
\* marker closes is found, with that value, in an entry parse_metafile
\* returned.
C12_FirstColonDelimits ==
    Parsed =>
        \A l \in 1..Len(manifest) :
            Len(Split(manifest[l], Colon)) > 2 /\ ClosedByMarker(manifest, l) =>
                \E m \in 1..Len(entries) :
                    /\ KeyOf(manifest[l]) \in DOMAIN entries[m]
                    /\ entries[m][KeyOf(manifest[l])] = ValueOf(manifest[l])

(***************************************************************************)
(* Properties of the resolution of a FITS file.                            *)
(***************************************************************************)
\* C13: the backend names GUPPI and GUPPI2 are one kind.  Of two files of
\* the same source and observation date, one written with BACKEND GUPPI
\* (g.fits) and one with GUPPI2 (a.fits), both are recognized and both get
\* the directories of source J1, backend GUPPI and year 2013 on each site.
C13_BackendVariantsSameKind ==
    fpc = "end" /\ rfile \in {a_fits, g_fits} =>
        /\ Len(items) = 1
        /\ items[1][1] = rfile
        /\ items[1][2] = <<"N", "A", "N", "O", "G", "r", "a", "v", "/", "J", "1", "/", "G", "U", "P", "P", "I", "/", "2", "0", "1", "3", "/", "r", "a", "w", "d", "a", "t", "a">>
        /\ items[1][3] = <<"/", "d", "s", "t", "o", "r", "e", "/", "d", "a", "t", "a", "/", "1", "/", "g", "u", "p", "p", "i">>

(***************************************************************************)
(* Properties of the resolution of a manifest.                             *)
(***************************************************************************)
\* the entries of a manifest: one for each marker line, in their order
EntriesOf(lines) ==
    [m \in 1..Cardinality(Markers(lines)) |-> FieldsOf(lines, MarkerAt(lines, m))]

\* an entry that refers to a raw archive of the disk of a known backend
RecognizedArchive(entry) ==
    /\ TOA \notin DOMAIN entry
    /\ entry[ProfileName] \in DOMAIN LocalFS
    /\ LocalFS[entry[ProfileName]].kind = "fits"
    /\ LocalFS[entry[ProfileName]].hdr["BACKEND"] \in {GUPPI, GUPPI2, PUPPI, xASP}

\* the files named by a sequence of work items
FilesOf(work) == [j \in 1..Len(work) |-> work[j][1]]

\* the files named by a sequence of entries
NamesOf(es) == [j \in 1..Len(es) |-> es[j][ProfileName]]

\* C14: a manifest gives the work list one item for each of its raw-archive
\* entries of a recognized backend, in manifest order, none for its TOA
\* entries, and then exactly one item for the manifest itself, to the
\* loadingfiles directory of each site, also when no entry gave an item.
C14_ManifestWorkItems ==
    Parsed /\ fpc = "end" =>
        /\ FilesOf(items) =
               NamesOf(SelectSeq(EntriesOf(manifest), RecognizedArchive)) \o <<m_txt>>
        /\ items[Len(items)] = <<m_txt, cornell_loadingfiles, ubc_loadingfiles>>

(***************************************************************************)
(* Properties of the ephemeris files (older nanoUpload.py).                *)
(***************************************************************************)
\* the attempt e uploads the ephemeris of its input file, not the file
CompanionUpload(e) == e.file /= argv[e.idx]

\* the ephemeris file of the attempt e went to both stores
OnBothStores(e) ==
    \A store \in Stores : \E l \in 1..Len(log) :
        log[l].store = store /\ log[l].idx = e.idx /\ log[l].file = e.file

\* C15: an ephemeris file that was written is uploaded on each store right
\* after its parent file and to the parent's directory, and it is deleted
\* from the local disk after it went to both stores and not before: it is
\* there at each of its uploads and it is gone when the run ends.
C15_CompanionAfterParentThenDeleted ==
    \A j \in 1..Len(log) :
        CompanionUpload(log[j]) =>
            /\ \E l \in 1..(j - 1) :
                  /\ log[l].store = log[j].store
                  /\ log[l].idx = log[j].idx
                  /\ log[l].file = argv[log[j].idx]
                  /\ log[l].path = log[j].path
                  /\ \A x \in (l + 1)..(j - 1) : log[x].store /= log[j].store
            /\ ~OnBothStores(log[j]) => log[j].file \in DOMAIN written
            /\ pc = "done" /\ OnBothStores(log[j]) => log[j].file \notin DOMAIN Disk

\* a batch of one GUPPI, one PUPPI and one ASP file, in any order, that the
\* transport has not failed
ThreeKindsBatch ==
    /\ Len(argv) = 3
    /\ { argv[j] : j \in 1..Len(argv) } = {g_fits, b_fits, x_fits}
    /\ faults = 0

\* the (file, store) pairs of the attempts made
PairsAttempted == { <<log[j].file, log[j].store>> : j \in 1..Len(log) }

\* the run goes through, writes two ephemeris files and leaves out the one
\* of the ASP file
TwoCompanionsOneSkipped ==
    /\ pc \notin {"crashed", "exit"}
    /\ pc = "done" =>
          /\ Cardinality(DOMAIN written) = 2
          /\ Replace(x_fits, dot_fits, dot_par) \notin DOMAIN written

C17_HandlesClosed ==
    /\ unclosed = {}
    /\ \A j \in 1..Len(log) : ~log[j].r.unclosed

\* the command line asks for the usage text
HelpAsked(args) ==
    Len(args) = 0 \/ \E j \in 1..Len(args) : args[j] \in {opt_h, opt_help}

\* the command line has an option that is not known, and no help flag
BadOption(args) ==
    ~HelpAsked(args) /\ \E j \in 1..Len(args) : StartsWith(args[j], "-")

\* C18: without arguments or with -h/--help the tool exits with code 0,
\* with another option with code 1, in both cases without opening a session
\* or attempting an upload; a run that got to the upload passes exits with
\* code 0.
C18_ExitCodes ==
    /\ HelpAsked(argv) \/ BadOption(argv) =>
          /\ pc \in {"start", "exit"}
          /\ cftp.conn = "none" /\ ubcsftp.conn = "none"
          /\ log = <<>>
    /\ pc = "exit" => exitcode = IF BadOption(argv) THEN 1 ELSE 0
    /\ pc = "done" => exitcode = 0

(***************************************************************************)
(* Properties of the remote directories.                                   *)
(***************************************************************************)
\* the file is a readable archive of a backend parse_archive knows
Recognized(filenm) ==
    ~parse_archive(filenm).raised /\ parse_archive(filenm).backend /= None

\* s without the run of the letter c at its front and the one at its end
Trimmed(s, c) ==
    LET a == CHOOSE a \in 1..(Len(s) + 1) :
                 /\ \A j \in 1..(a - 1) : s[j] = c
                 /\ a = Len(s) + 1 \/ s[a] /= c
        b == CHOOSE b \in 0..Len(s) :
                 /\ \A j \in (b + 1)..Len(s) : s[j] = c
                 /\ b = 0 \/ s[b] /= c
    IN  SubSeq(s, a, b)

\* the canonical backend names in lower case
LowerCased(B) ==
    CASE B = GUPPI -> <<"g", "u", "p", "p", "i">>
      [] B = PUPPI -> <<"p", "u", "p", "p", "i">>
      [] B = ASP -> <<"a", "s", "p">>

\* NANOGrav/S/B/Y/category
SiteADir(S, B, Y, category) ==
    NANOGrav \o <<"/">> \o S \o <<"/">> \o B \o <<"/">> \o Y \o <<"/">> \o category

\* /dstore/data/S'/b
SiteBDir(S, B) ==
    <<"/", "d", "s", "t", "o", "r", "e", "/", "d", "a", "t", "a", "/">>
        \o Trimmed(Trimmed(S, "B"), "J") \o <<"/">> \o LowerCased(B)

\* the work item of a recognized file is the file with these directories
ItemHasDirs(item, filenm, category) ==
    LET r == parse_archive(filenm)
    IN  /\ Recognized(filenm)
        /\ item = <<filenm, SiteADir(r.source, r.backend, r.year, category),
                    SiteBDir(r.source, r.backend)>>

\* C19: a recognized file with source S, canonical backend B and year Y goes
\* to NANOGrav/S/B/Y/rawdata at Cornell when it was given on the command
\* line and to NANOGrav/S/B/Y/processed when a manifest entry names it, and
\* in both cases to /dstore/data/S'/b at UBC, b being B in lower case and S'
\* being S without the letters B, then J, at its front and its end.
C19_RemotePaths ==
    fpc = "end" =>
        /\ rfile /= None /\ Recognized(rfile) =>
              Len(items) = 1 /\ ItemHasDirs(items[1], rfile, rawdata)
        /\ rfile = None =>
              \A j \in 1..(Len(items) - 1) :
                  ItemHasDirs(items[j], items[j][1], processed)

\* a manifest whose first item is the ASP archive of source "BJ3B" has been
\* resolved
C19_Witness ==
    /\ fpc = "end" /\ rfile = None
    /\ Len(items) >= 2
    /\ items[1] = <<x_fits,
                    <<"N", "A", "N", "O", "G", "r", "a", "v", "/", "B", "J", "3", "B", "/", "A", "S", "P", "/", "2", "0", "1", "2", "/", "p", "r", "o", "c", "e", "s", "s", "e", "d">>,
                    <<"/", "d", "s", "t", "o", "r", "e", "/", "d", "a", "t", "a", "/", "3", "/", "a", "s", "p">>>>

(***************************************************************************)
(* Properties of the derived year.                                         *)
(***************************************************************************)
\* C20: the year derived from day number plus second of day / 86400 is the
\* calendar year of that day, which is the year derived from the date field
\* of the same instant, also for the first and the last second of 31
\* December and of 1 January.
C20_SameYear ==
    years /= NoYears =>
        /\ years.encoded = IntToStr(epoch.y)
        /\ years.direct = years.encoded

\* the year of the last second of 31 December 2012 has been derived from
\* both headers by parse_archive
C20_Witness ==
    /\ epoch = [y |-> 2012, m |-> 12, d |-> 31, s |-> 86399]
    /\ years = [prog |-> "bin", direct |-> <<"2", "0", "1", "2">>,
                encoded |-> <<"2", "0", "1", "2">>]

(***************************************************************************)
(* Properties of the remote trees over a batch.                            *)
(***************************************************************************)
\* the directories of the Cornell server when the run made its first call
CornellDirsAtStart == IF log = <<>> THEN cftp.dirs ELSE log[1].before.dirs

\* the directory q lies on the way from the root to the remote directory of
\* some work item
OnItemPath(q) ==
    \E j \in 1..Len(uploads) : q \in Prefixes(ResolvePath(Root, uploads[j][2]))

\* C21: on the Cornell store, whatever fails, the run creates no directory
\* but the prefixes, from the root, of the remote directory of some work
\* item; and an item whose own call meets no failure is written to the
\* place it has when nothing failed before it.
C21_DirectoriesOnItemPaths ==
    /\ \A q \in cftp.dirs \ CornellDirsAtStart : OnItemPath(q)
    /\ \A j \in 1..Len(log) :
          log[j].store = "cornell" /\ log[j].faultAt = 0 /\ log[j].r.wrote
              => log[j].r.dest =
                     ResolvePath(Root, PathJoin(log[j].path, log[j].file))

\* the remote directory of the work item of an attempt
ItemDirectory(e) == ResolvePath(Root, e.path)

\* C22: whenever upload transfers a file, on either store, the file it
\* writes is <remote directory>/<base name of the local file>, a direct
\* child of the remote directory of the work item, the directory whose
\* listing was checked; for every local path, those with a directory part
\* and the absolute ones too.
C22_WritesChildOfItemDirectory ==
    \A j \in 1..Len(log) :
        log[j].r.wrote
            => /\ log[j].r.checked
               /\ log[j].r.dest = ItemDirectory(log[j]) \o <<BaseName(log[j].file)>>

(***************************************************************************)
(* Properties of the entries of a manifest.                                *)
(***************************************************************************)
\* the entry has its type tag: TOA with a TOA field, archive without
Tagged(entry) ==
    /\ type \in DOMAIN entry
    /\ entry[type] = IF TOA \in DOMAIN entry THEN TOA ELSE archive

\* C23: for every manifest text every entry parse_metafile returns has the
\* key ProfileName and its type tag, so the orchestrator's lookup of
\* entry["ProfileName"] on an archive entry never raises (the files the
\* manifests name here are all readable archives, so nothing else of the
\* turn can raise); also when key/value lines come before the first
\* ProfileName line.
C23_EntriesHaveProfileName ==
    Parsed =>
        /\ \A m \in 1..Len(entries) :
              ProfileName \in DOMAIN entries[m] /\ Tagged(entries[m])
        /\ fpc /= "raised"

(***************************************************************************)
(* Properties of the local disk (older nanoUpload.py).                     *)
(***************************************************************************)
\* C24: write_ephemeris never modifies its input file: the par file it
\* opens for writing has another name than the input file, so every input
\* file of the disk has its original content throughout the run, and in
\* particular when it is uploaded.
C24_InputFileNotModified ==
    \A j \in 1..Len(argv) :
        argv[j] \in DOMAIN LocalFS => Disk[argv[j]] = LocalFS[argv[j]]

(***************************************************************************)
(* Properties of the remote sessions.                                      *)
(***************************************************************************)
\* the process has ended: by the end of the script, by sys.exit or by an
\* exception nothing caught
Ended == pc \in {"done", "exit", "crashed"}

\* C25: every session the run opens is closed before the process ends, and
\* no upload is attempted on a session that is not open (so the closing
\* comes after the last attempt); whatever uploads fail, and also when the
\* UBC session cannot be opened after the Cornell session was.
C25_SessionsClosed ==
    /\ Ended => cftp.conn /= "open" /\ ubcsftp.conn /= "open"
    /\ \A j \in 1..Len(log) : log[j].before.conn = "open"

====
